---- MODULE Spec2Model ----
(***************************************************************************)
(* A model of the two scripts of the repository:                           *)
(*                                                                         *)
(*   build_carddb_ptcg.py  the card importer: fetch_cards pages through    *)
(*       the catalogue, group_cards groups the records, process_card and   *)
(*       gen_cardnames derive the rows, main deletes the old rows and      *)
(*       inserts the new ones in one database transaction;                 *)
(*   common/youtube.py     get_token (OAuth refresh) and get_paginated     *)
(*       (the page-by-page listing of a YouTube resource).                 *)
(*                                                                         *)
(* Python strings are TLA+ strings, ''.join and f-strings are \o.  A       *)
(* Python exception raised by a pure function is the result                *)
(* [ok |-> FALSE, ...]; an exception that reaches main ends the run        *)
(* through the rollback of the connection's context manager.               *)
(***************************************************************************)
EXTENDS Integers, Sequences, FiniteSets, TLC

VARIABLES
    \* ---- build_carddb_ptcg.py
    remote,       \* the catalogue as the API serves it: remote[p] is the data of page p
    cards,        \* the committed content of the cards table (rows in insertion order)
    txn,          \* the table as the open transaction of main sees it
    main_pc,      \* where main is: "delete", "fetch", "group", "iter", "done", "failed"
    page,         \* fetch_cards: the local variable page
    requested,    \* the page numbers fetch_cards has requested, in order
    yielded,      \* the records fetch_cards has yielded, in order
    pkmn_cards,   \* group_cards: the local list pkmn_cards
    other_cards,  \* group_cards: the local list other_cards
    groups,       \* the groups group_cards yields, in order
    gi, ci, ri,   \* iter_cards/process_card: current group, card in it, row of the card
    emitted,      \* the tuples iter_cards has yielded to main in this run
    before,       \* the committed table when the run started
    ninserts,     \* the INSERT statements this run has executed
    \* ---- cost, applied on its own
    cost_in,      \* the argument costs
    cost_out,     \* <<>> before the call, <<result>> after it
    \* ---- common/youtube.py
    account,      \* the accounts row of the channel
    now,          \* the clock, datetime.now(pytz.utc)
    tk_pc,        \* where get_token is: "idle", "refresh", "returned", "raised"
    tk_start,     \* the accounts row and the clock when the current get_token call began
    tk_result,    \* what the last get_token call returned
    tk_refreshes, \* refresh requests the current get_token call has issued
    tk_response,  \* the token endpoint's response to the current call's refresh (<<>>: none)
    pg_pc,        \* where get_paginated is: "top", "token", "request", "items", "sleep", "done", "raised"
    inflight,     \* the HTTP requests sent and not yet answered
    response,     \* get_paginated: the local variable response (<<>> before the first)
    item_i,       \* items of response already yielded
    delivered,    \* number of items the consumer has received
    page_token,   \* data['pageToken'] ("" while the key is not set)
    nrequests,    \* list requests get_paginated has issued
    nsleeps,      \* sleeps get_paginated has finished
    slept         \* whether the sleep after the current response has finished

importVars == <<remote, cards, txn, main_pc, page, requested, yielded, pkmn_cards,
                other_cards, groups, gi, ci, ri, emitted, before, ninserts>>
costVars == <<cost_in, cost_out>>
tokenVars == <<account, now, tk_pc, tk_start, tk_result, tk_refreshes, tk_response>>
pageVars == <<pg_pc, inflight, response, item_i, delivered, page_token, nrequests,
              nsleeps, slept>>
vars == <<importVars, costVars, tokenVars, pageVars>>
youtubeAndCost == <<costVars, tokenVars, pageVars>>

----------------------------------------------------------------------------
(* Bounds of the model. *)

\* the API's pageSize (250 in URL), scaled down
PageSize == 2
\* the longest catalogue of the naming specification
MaxCards == 3
\* the longest catalogue of a run of the repeated-import specification
MaxRunCards == 2
\* pages the adversarial catalogue of the fetch specification may hold
MaxPages == 3
\* the longest cost list
MaxCost == 3
\* the clock stops at MaxTime
MaxTime == 2
\* the pages a listing has at most
MaxListPages == 2
\* the items a page has at most
MaxItems == 1

----------------------------------------------------------------------------
(* Sequence helpers. *)

RECURSIVE Join(_)
\* ''.join(pieces)
Join(pieces) ==
    IF pieces = <<>> THEN "" ELSE Head(pieces) \o Join(Tail(pieces))

RECURSIVE JoinSep(_, _)
\* sep.join(pieces)
JoinSep(pieces, sep) ==
    IF pieces = <<>> THEN ""
    ELSE IF Len(pieces) = 1 THEN pieces[1]
    ELSE pieces[1] \o sep \o JoinSep(Tail(pieces), sep)

RECURSIVE Flatten(_)
Flatten(ss) ==
    IF ss = <<>> THEN <<>> ELSE Head(ss) \o Flatten(Tail(ss))

SeqsUpTo(S, n) == UNION {[1..k -> S] : k \in 0..n}

Range(s) == {s[i] : i \in 1..Len(s)}

----------------------------------------------------------------------------
(* The data: sets, cards, the cost-type table. *)

CARD_GAME_PTCG == "ptcg"
CARD_GAME_MTG == "mtg"

TYPEABBR ==
    [t \in {"Colorless", "Darkness", "Dragon", "Grass", "Fairy", "Fighting", "Fire",
            "Lightning", "Metal", "Psychic", "Water"} |->
        CASE t = "Colorless" -> "C"
          [] t = "Darkness" -> "D"
          [] t = "Dragon" -> "N"
          [] t = "Grass" -> "G"
          [] t = "Fairy" -> "Y"
          [] t = "Fighting" -> "F"
          [] t = "Fire" -> "R"
          [] t = "Lightning" -> "L"
          [] t = "Metal" -> "M"
          [] t = "Psychic" -> "P"
          [] t = "Water" -> "W"]

\* a set as the API gives it; ptcgoCode "" is an absent key, releaseDate is the
\* "YYYY/MM/DD" string, whose order is the order of the day numbers used here
SetA == [id |-> "a", ptcgoCode |-> "", releaseDate |-> 1]
SetB == [id |-> "b", ptcgoCode |-> "BS", releaseDate |-> 2]
SetC == [id |-> "c", ptcgoCode |-> "", releaseDate |-> 2]

Pkmn(name, set, number) ==
    [name |-> name, supertype |-> "Pokémon", set |-> set, number |-> number,
     attacks |-> <<[name |-> "Gnaw", cost |-> <<"Colorless", "Lightning">>]>>,
     retreatCost |-> <<"Colorless">>]

Trainer(name, set, number) ==
    [name |-> name, supertype |-> "Trainer", set |-> set, number |-> number,
     attacks |-> <<>>]

PikachuA1 == Pkmn("Pikachu", SetA, "1")
PikachuA2 == Pkmn("Pikachu", SetA, "2")
PikachuB1 == Pkmn("Pikachu", SetB, "1")
ChanseyEx == Pkmn("Chansey ex", SetA, "3")
ChanseyEX == Pkmn("Chansey-EX", SetB, "4")
UnownExcl == Pkmn("Unown", SetA, "!")
PotionA == Trainer("Potion", SetA, "5")
PotionB == Trainer("Potion", SetB, "6")
PotionC == Trainer("Potion", SetC, "7")
\* a card whose attack costs a type the table does not know
ShadowMew ==
    [name |-> "Mew", supertype |-> "Pokémon", set |-> SetB, number |-> "8",
     attacks |-> <<[name |-> "Psyshot", cost |-> <<"Psychic", "Shadow">>]>>]

\* the catalogue records of the naming specification
NameCards == {PikachuA1, PikachuA2, PikachuB1, ChanseyEx, ChanseyEX, PotionA, PotionB,
              PotionC, ShadowMew}
\* the catalogue records of the repeated-import specification
RunCards == {PikachuA1, UnownExcl, PotionA, ShadowMew}
\* the records of the fetch specification
FetchCards == {PikachuA1, PotionA}

----------------------------------------------------------------------------
(* common.card.clean_text: the lookup key of a display name.  The text is     *)
(* given as the pieces it was built from; each piece is case-folded and its   *)
(* blanks and punctuation are dropped.                                        *)

CleanPiece(piece) ==
    CASE piece = "Pikachu" -> "pikachu"
      [] piece = "Chansey ex" -> "chanseyex"
      [] piece = "Chansey-EX" -> "chanseyex"
      [] piece = "Unown" -> "unown"
      [] piece = "Potion" -> "potion"
      [] piece = "Mew" -> "mew"
      [] piece = "A" -> "a"
      [] piece = "BS" -> "bs"
      [] piece = "C" -> "c"
      [] piece \in {" (", " ", ")", "!", "?"} -> ""
      [] OTHER -> piece

RECURSIVE clean_text(_)
clean_text(pieces) ==
    IF pieces = <<>> THEN "" ELSE CleanPiece(Head(pieces)) \o clean_text(Tail(pieces))

----------------------------------------------------------------------------
(* build_carddb_ptcg.py: the pure functions. *)

\* str.upper() on the set identifiers
Upper(id) ==
    CASE id = "a" -> "A"
      [] id = "b" -> "B"
      [] id = "c" -> "C"
      [] OTHER -> id

setcode(card) ==
    IF card.set.ptcgoCode # "" THEN card.set.ptcgoCode ELSE Upper(card.set.id)

RECURSIVE Abbrs(_)
\* the loop "for cost in costs: res.append(TYPEABBR[cost])"
Abbrs(costs) ==
    IF costs = <<>> THEN "" ELSE TYPEABBR[Head(costs)] \o Abbrs(Tail(costs))

\* cost gone wrong: the count is rendered whatever it is
cost_AlwaysCounts(costs) ==
    LET noFree == SelectSeq(costs, LAMBDA i : i # "Free")
        count == Len(SelectSeq(noFree, LAMBDA i : i = "Colorless"))
        rest == SelectSeq(noFree, LAMBDA i : i # "Colorless")
    IN  IF \E i \in 1..Len(rest) : rest[i] \notin DOMAIN TYPEABBR
        THEN [ok |-> FALSE, val |-> "KeyError"]
        ELSE [ok |-> TRUE, val |-> ToString(count) \o Abbrs(rest)]

cost(costs) ==
    LET noFree == SelectSeq(costs, LAMBDA i : i # "Free")
        count == Len(SelectSeq(noFree, LAMBDA i : i = "Colorless"))
        counted == count # 0 \/ noFree = <<>>
        rest == IF counted THEN SelectSeq(noFree, LAMBDA i : i # "Colorless") ELSE noFree
    IN  IF \E i \in 1..Len(rest) : rest[i] \notin DOMAIN TYPEABBR
        THEN [ok |-> FALSE, val |-> "KeyError"]
        ELSE [ok |-> TRUE,
              val |-> (IF counted THEN ToString(count) ELSE "") \o Abbrs(rest)]

\* one entry of the rules list of gen_text: "{cost} name"
RuleText(rule) ==
    LET c == cost(rule.cost)
    IN  [ok |-> c.ok, val |-> "{" \o c.val \o "} " \o rule.name]

\* ''.join(gen_text(card)) for a card that has, of the optional attributes,
\* attacks and retreatCost only
gen_text(card) ==
    LET head == card.name
                \o (IF card.supertype = "Pokémon"
                    THEN " (" \o setcode(card) \o " " \o card.number \o ")" ELSE "")
                \o " | " \o card.supertype
        rules == card.attacks
        texts == [i \in 1..Len(rules) |-> RuleText(rules[i])]
        retreat == IF "retreatCost" \in DOMAIN card
                   THEN cost(card.retreatCost) ELSE [ok |-> TRUE, val |-> ""]
        ok == rules = <<>> \/ ((\A i \in 1..Len(rules) : texts[i].ok) /\ retreat.ok)
    IN  IF ~ok THEN [ok |-> FALSE, val |-> "KeyError"]
        ELSE IF rules = <<>> THEN [ok |-> TRUE, val |-> head]
        ELSE [ok |-> TRUE,
              val |-> head \o " | "
                      \o JoinSep([i \in 1..Len(rules) |-> texts[i].val], " / ")
                      \o (IF "retreatCost" \in DOMAIN card
                          THEN " | retreat: {" \o retreat.val \o "}" ELSE "")]

\* gen_cardnames gone wrong: the full name is hidden when it is the only name
gen_cardnames_FullInverted(card, unique, setunique) ==
    IF card.supertype = "Pokémon"
    THEN <<[pieces |-> <<card.name, " (", setcode(card), " ", card.number, ")">>,
            hidden |-> ~(unique \/ setunique)]>>
         \o (IF setunique
             THEN <<[pieces |-> <<card.name, " (", setcode(card), ")">>, hidden |-> unique]>>
             ELSE <<>>)
         \o (IF unique THEN <<[pieces |-> <<card.name>>, hidden |-> FALSE]>> ELSE <<>>)
    ELSE <<[pieces |-> <<card.name>>, hidden |-> FALSE]>>

\* gen_cardnames gone wrong: the bare name is generated under the test of the
\* set-qualified name
gen_cardnames_BareIfSetUnique(card, unique, setunique) ==
    IF card.supertype = "Pokémon"
    THEN <<[pieces |-> <<card.name, " (", setcode(card), " ", card.number, ")">>,
            hidden |-> unique \/ setunique]>>
         \o (IF setunique
             THEN <<[pieces |-> <<card.name, " (", setcode(card), ")">>, hidden |-> unique]>>
             ELSE <<>>)
         \o (IF setunique THEN <<[pieces |-> <<card.name>>, hidden |-> FALSE]>> ELSE <<>>)
    ELSE <<[pieces |-> <<card.name>>, hidden |-> FALSE]>>

gen_cardnames(card, unique, setunique) ==
    IF card.supertype = "Pokémon"
    THEN <<[pieces |-> <<card.name, " (", setcode(card), " ", card.number, ")">>,
            hidden |-> unique \/ setunique]>>
         \o (IF setunique
             THEN <<[pieces |-> <<card.name, " (", setcode(card), ")">>, hidden |-> unique]>>
             ELSE <<>>)
         \o (IF unique THEN <<[pieces |-> <<card.name>>, hidden |-> FALSE]>> ELSE <<>>)
    ELSE <<[pieces |-> <<card.name>>, hidden |-> FALSE]>>

\* process_card gone wrong: a group of two still counts as unique
process_card_UniqueOffByOne(card, group) ==
    LET unique == Len(group) <= 2
        setunique == Len(SelectSeq(group, LAMBDA c : c.set.id = card.set.id)) <= 1
        description == gen_text(card).val
        names == gen_cardnames(card, unique, setunique)
    IN  [i \in 1..Len(names) |->
            [cardname |-> Join(names[i].pieces),
             filteredname |-> clean_text(names[i].pieces),
             description |-> description,
             hidden |-> names[i].hidden,
             card |-> card]]

\* the tuples process_card yields for a card whose description can be rendered
process_card(card, group) ==
    LET unique == Len(group) <= 1
        setunique == Len(SelectSeq(group, LAMBDA c : c.set.id = card.set.id)) <= 1
        description == gen_text(card).val
        names == gen_cardnames(card, unique, setunique)
    IN  [i \in 1..Len(names) |->
            [cardname |-> Join(names[i].pieces),
             filteredname |-> clean_text(names[i].pieces),
             description |-> description,
             hidden |-> names[i].hidden,
             card |-> card]]

get_hacks(cardname, filteredname, card) ==
    [cardname |-> cardname,
     filteredname |-> filteredname
                      \o (IF card.name = "Unown" /\ card.number = "!"
                          THEN "exclamation" ELSE "")
                      \o (IF card.name = "Unown" /\ card.number = "?"
                          THEN "question" ELSE ""),
     skip |-> card.name \in {"Chansey ex", "Electabuzz ex", "Magmar ex"}
              /\ cardname = card.name]

RECURSIVE NameKeys(_, _)
\* the keys of the defaultdict names, in insertion order
NameKeys(cs, seen) ==
    IF cs = <<>> THEN <<>>
    ELSE LET k == clean_text(<<Head(cs).name>>)
         IN  IF k \in seen THEN NameKeys(Tail(cs), seen)
             ELSE <<k>> \o NameKeys(Tail(cs), seen \cup {k})

\* list(names.values()): one list per key, each in the order of cs
NameGroups(cs) ==
    LET keys == NameKeys(cs, {})
    IN  [j \in 1..Len(keys) |->
            SelectSeq(cs, LAMBDA c : clean_text(<<c.name>>) = keys[j])]

group_pkmn_cards(cs) == NameGroups(cs)

\* max gone wrong: on a tie the later record wins
MaxStep_LastWins(best, card) ==
    IF card.set.releaseDate >= best.set.releaseDate THEN card ELSE best

\* one step of max(group, key=...): a later record replaces the best so far
\* only when its key is strictly greater
MaxStep(best, card) ==
    IF card.set.releaseDate > best.set.releaseDate THEN card ELSE best

RECURSIVE MaxFrom(_, _)
MaxFrom(best, rest) ==
    IF rest = <<>> THEN best ELSE MaxFrom(MaxStep(best, Head(rest)), Tail(rest))

group_other_cards(cs) ==
    LET gs == NameGroups(cs)
    IN  [j \in 1..Len(gs) |-> <<MaxFrom(Head(gs[j]), Tail(gs[j]))>>]

\* dat['data'] of page p
PageData(p) == IF p \in 1..Len(remote) THEN remote[p] ELSE <<>>

RECURSIVE Chunk(_, _)
\* the catalogue cs as the API pages it, n records a page
Chunk(cs, n) ==
    IF Len(cs) <= n THEN (IF cs = <<>> THEN <<>> ELSE <<cs>>)
    ELSE <<SubSeq(cs, 1, n)>> \o Chunk(SubSeq(cs, n + 1, Len(cs)), n)

----------------------------------------------------------------------------
(* build_carddb_ptcg.py: main and the generators it drives. *)

\* a row of another game, which the importer must never touch
MtgRow ==
    [game |-> CARD_GAME_MTG, filteredname |-> "forest", name |-> "Forest",
     text |-> "Forest | Land", hidden |-> FALSE]

PtcgRows(table) == SelectSeq(table, LAMBDA r : r.game = CARD_GAME_PTCG)
OtherRows(table) == SelectSeq(table, LAMBDA r : r.game # CARD_GAME_PTCG)

\* the locals of a run that has just opened its connection
StartRun ==
    /\ main_pc = "delete"
    /\ txn = cards
    /\ before = cards
    /\ page = 1
    /\ requested = <<>>
    /\ yielded = <<>>
    /\ pkmn_cards = <<>>
    /\ other_cards = <<>>
    /\ groups = <<>>
    /\ gi = 1 /\ ci = 1 /\ ri = 1
    /\ emitted = <<>>
    /\ ninserts = 0

\* Rollback gone wrong: the exception leaves the work done so far committed
Rollback_KeepsPartial ==
    /\ main_pc' = "failed"
    /\ txn' = txn
    /\ cards' = txn

\* the exception leaves the with block: psycopg2 rolls the transaction back
Rollback ==
    /\ main_pc' = "failed"
    /\ txn' = cards
    /\ cards' = cards

\* Delete gone wrong: the DELETE matches no row
Delete_Nothing ==
    /\ main_pc = "delete"
    /\ txn' = txn
    /\ main_pc' = "fetch"
    /\ UNCHANGED <<remote, cards, page, requested, yielded, pkmn_cards, other_cards,
                   groups, gi, ci, ri, emitted, before, ninserts>>
    /\ UNCHANGED youtubeAndCost

\* cur.execute("DELETE FROM cards WHERE game = %s", (CARD_GAME_PTCG, ))
Delete ==
    /\ main_pc = "delete"
    /\ txn' = OtherRows(txn)
    /\ main_pc' = "fetch"
    /\ UNCHANGED <<remote, cards, page, requested, yielded, pkmn_cards, other_cards,
                   groups, gi, ci, ri, emitted, before, ninserts>>
    /\ UNCHANGED youtubeAndCost

DeleteFail ==
    /\ main_pc = "delete"
    /\ Rollback
    /\ UNCHANGED <<remote, page, requested, yielded, pkmn_cards, other_cards,
                   groups, gi, ci, ri, emitted, before, ninserts>>
    /\ UNCHANGED youtubeAndCost

\* fetch_cards gone wrong: an empty page is passed over, and the loop ends only
\* beyond the last page of the catalogue
FetchPage_PassesEmpty ==
    /\ main_pc = "fetch"
    /\ requested' = Append(requested, page)
    /\ LET dat == PageData(page)
       IN  IF dat = <<>> /\ page > Len(remote)
           THEN /\ main_pc' = "group"
                /\ UNCHANGED <<page, yielded, pkmn_cards, other_cards>>
           ELSE /\ yielded' = yielded \o dat
                /\ pkmn_cards' = pkmn_cards
                                 \o SelectSeq(dat, LAMBDA c : c.supertype = "Pokémon")
                /\ other_cards' = other_cards
                                  \o SelectSeq(dat, LAMBDA c : c.supertype # "Pokémon")
                /\ page' = page + 1
                /\ UNCHANGED main_pc
    /\ UNCHANGED <<remote, cards, txn, groups, gi, ci, ri, emitted, before, ninserts>>
    /\ UNCHANGED youtubeAndCost

\* one turn of the loop of fetch_cards, with group_cards consuming what it yields
FetchPage ==
    /\ main_pc = "fetch"
    /\ requested' = Append(requested, page)
    /\ LET dat == PageData(page)
       IN  IF dat = <<>>
           THEN /\ main_pc' = "group"
                /\ UNCHANGED <<page, yielded, pkmn_cards, other_cards>>
           ELSE /\ yielded' = yielded \o dat
                /\ pkmn_cards' = pkmn_cards
                                 \o SelectSeq(dat, LAMBDA c : c.supertype = "Pokémon")
                /\ other_cards' = other_cards
                                  \o SelectSeq(dat, LAMBDA c : c.supertype # "Pokémon")
                /\ page' = page + 1
                /\ UNCHANGED main_pc
    /\ UNCHANGED <<remote, cards, txn, groups, gi, ci, ri, emitted, before, ninserts>>
    /\ UNCHANGED youtubeAndCost

\* urlopen or json.load raises
FetchFail ==
    /\ main_pc = "fetch"
    /\ requested' = Append(requested, page)
    /\ Rollback
    /\ UNCHANGED <<remote, page, yielded, pkmn_cards, other_cards, groups, gi, ci,
                   ri, emitted, before, ninserts>>
    /\ UNCHANGED youtubeAndCost

\* group_cards after its loop
Group ==
    /\ main_pc = "group"
    /\ groups' = group_pkmn_cards(pkmn_cards) \o group_other_cards(other_cards)
    /\ main_pc' = "iter"
    /\ UNCHANGED <<remote, cards, txn, page, requested, yielded, pkmn_cards,
                   other_cards, gi, ci, ri, emitted, before, ninserts>>
    /\ UNCHANGED youtubeAndCost

CurGroup == groups[gi]
CurCard == groups[gi][ci]
CurRows == process_card(CurCard, CurGroup)
CurHacks == get_hacks(CurRows[ri].cardname, CurRows[ri].filteredname, CurRows[ri].card)

\* iter_cards has a tuple to yield
AtRow ==
    /\ main_pc = "iter"
    /\ gi <= Len(groups)
    /\ gen_text(CurCard).ok

\* the loops of iter_cards and process_card move on
Advance ==
    IF ri < Len(CurRows) THEN ri' = ri + 1 /\ UNCHANGED <<ci, gi>>
    ELSE IF ci < Len(CurGroup) THEN ri' = 1 /\ ci' = ci + 1 /\ UNCHANGED gi
    ELSE ri' = 1 /\ ci' = 1 /\ gi' = gi + 1

\* the body of the for loop of main for one tuple
HandleRow ==
    /\ AtRow
    /\ emitted' = Append(emitted, CurRows[ri])
    /\ IF CurHacks.skip
       THEN UNCHANGED <<txn, ninserts>>
       ELSE /\ txn' = Append(txn, [game |-> CARD_GAME_PTCG,
                                   filteredname |-> CurHacks.filteredname,
                                   name |-> CurHacks.cardname,
                                   text |-> CurRows[ri].description,
                                   hidden |-> CurRows[ri].hidden])
            /\ ninserts' = ninserts + 1
    /\ Advance
    /\ UNCHANGED <<remote, cards, main_pc, page, requested, yielded, pkmn_cards,
                   other_cards, groups, before>>
    /\ UNCHANGED youtubeAndCost

\* the INSERT raises
InsertFail ==
    /\ AtRow
    /\ ~CurHacks.skip
    /\ emitted' = Append(emitted, CurRows[ri])
    /\ Rollback
    /\ UNCHANGED <<remote, page, requested, yielded, pkmn_cards, other_cards, groups,
                   gi, ci, ri, before, ninserts>>
    /\ UNCHANGED youtubeAndCost

\* cost raises KeyError while process_card renders the description
FormatFail ==
    /\ main_pc = "iter"
    /\ gi <= Len(groups)
    /\ ~gen_text(CurCard).ok
    /\ Rollback
    /\ UNCHANGED <<remote, page, requested, yielded, pkmn_cards, other_cards, groups,
                   gi, ci, ri, emitted, before, ninserts>>
    /\ UNCHANGED youtubeAndCost

\* the with block ends without an exception: psycopg2 commits
Commit ==
    /\ main_pc = "iter"
    /\ gi > Len(groups)
    /\ cards' = txn
    /\ main_pc' = "done"
    /\ UNCHANGED <<remote, txn, page, requested, yielded, pkmn_cards, other_cards,
                   groups, gi, ci, ri, emitted, before, ninserts>>
    /\ UNCHANGED youtubeAndCost

\* the script is run again, against whatever the catalogue then holds
Restart ==
    /\ main_pc \in {"done", "failed"}
    /\ remote' \in {Chunk(c, PageSize) : c \in SeqsUpTo(RunCards, MaxRunCards)}
    /\ cards' = cards
    /\ main_pc' = "delete"
    /\ txn' = cards
    /\ before' = cards
    /\ page' = 1
    /\ requested' = <<>>
    /\ yielded' = <<>>
    /\ pkmn_cards' = <<>>
    /\ other_cards' = <<>>
    /\ groups' = <<>>
    /\ gi' = 1 /\ ci' = 1 /\ ri' = 1
    /\ emitted' = <<>>
    /\ ninserts' = 0
    /\ UNCHANGED youtubeAndCost

----------------------------------------------------------------------------
(* cost applied to a list of tokens. *)

CostTokens == DOMAIN TYPEABBR \cup {"Free", "Shadow"}

CostCall ==
    /\ cost_out = <<>>
    /\ cost_out' = <<cost(cost_in)>>
    /\ UNCHANGED cost_in
    /\ UNCHANGED <<importVars, tokenVars, pageVars>>

CostIdle == cost_in = <<>> /\ cost_out = <<>>

----------------------------------------------------------------------------
(* common/youtube.py: get_token and get_paginated.  The clock is read where  *)
(* the code reads it; Tick lets time pass between any two steps.  A missing  *)
(* refresh_token or nextPageToken key is "", a missing pollingIntervalMillis *)
(* is 0, its default.  The accounts table is written by get_token only.      *)

\* what the token endpoint may answer
TokenResponses ==
    [access_token : {"t1", "t2"}, refresh_token : {"", "r1"}, expires_in : {1, 2}]

\* what the list endpoint may answer
ListResponses ==
    [items : SeqsUpTo({"m"}, MaxItems), nextPageToken : {"", "p"},
     pollingIntervalMillis : {0, 500}]

Tick ==
    /\ now < MaxTime
    /\ now' = now + 1
    /\ UNCHANGED <<account, tk_pc, tk_start, tk_result, tk_refreshes, tk_response>>
    /\ UNCHANGED <<pageVars, importVars, costVars>>

\* get_paginated calls get_token, which reads the row and either returns the
\* stored token or sends the refresh request
TokenStart ==
    /\ pg_pc = "top"
    /\ pg_pc' = "token"
    /\ tk_start' = <<[account |-> account, now |-> now]>>
    /\ tk_response' = <<>>
    /\ IF account.token_expires_at > now
       THEN /\ tk_pc' = "returned"
            /\ tk_result' = account.access_token
            /\ tk_refreshes' = 0
            /\ UNCHANGED inflight
       ELSE /\ tk_pc' = "refresh"
            /\ tk_result' = ""
            /\ tk_refreshes' = 1
            /\ inflight' = Append(inflight, [kind |-> "token",
                                             refresh_token |-> account.refresh_token])
    /\ UNCHANGED <<account, now, response, item_i, delivered, page_token, nrequests,
                   nsleeps, slept>>
    /\ UNCHANGED <<importVars, costVars>>

\* get_token gone wrong: the refresh token of the answer is stored even when
\* the answer has none
Refreshed_Overwrites(row, r) ==
    [access_token |-> r.access_token,
     refresh_token |-> r.refresh_token,
     token_expires_at |-> now + r.expires_in]

\* the row get_token writes for the answer r of the token endpoint
Refreshed(row, r) ==
    [access_token |-> r.access_token,
     refresh_token |-> IF r.refresh_token # "" THEN r.refresh_token ELSE row.refresh_token,
     token_expires_at |-> now + r.expires_in]

\* request_token returns; get_token updates the row, commits and returns
TokenRefreshed ==
    /\ tk_pc = "refresh"
    /\ \E r \in TokenResponses :
          /\ account' = Refreshed(account, r)
          /\ tk_response' = <<[response |-> r, at |-> now]>>
          /\ tk_result' = r.access_token
    /\ tk_pc' = "returned"
    /\ inflight' = SelectSeq(inflight, LAMBDA q : q.kind # "token")
    /\ UNCHANGED <<now, tk_start, tk_refreshes, pg_pc, response, item_i, delivered,
                   page_token, nrequests, nsleeps, slept>>
    /\ UNCHANGED <<importVars, costVars>>

\* http.request of request_token raises, or its answer is not a token
TokenFailed ==
    /\ tk_pc = "refresh"
    /\ tk_pc' = "raised"
    /\ pg_pc' = "raised"
    /\ inflight' = SelectSeq(inflight, LAMBDA q : q.kind # "token")
    /\ UNCHANGED <<account, now, tk_start, tk_result, tk_refreshes, tk_response,
                   response, item_i, delivered, page_token, nrequests, nsleeps, slept>>
    /\ UNCHANGED <<importVars, costVars>>

\* get_paginated sends the list request with the token get_token returned
ListRequest ==
    /\ pg_pc = "token"
    /\ tk_pc = "returned"
    /\ inflight' = Append(inflight, [kind |-> "list", token |-> tk_result,
                                     pageToken |-> page_token])
    /\ nrequests' = nrequests + 1
    /\ pg_pc' = "request"
    /\ UNCHANGED <<response, item_i, delivered, page_token, nsleeps, slept>>
    /\ UNCHANGED <<tokenVars, importVars, costVars>>

\* the answer arrives; a listing has at most MaxListPages pages
ListResponse ==
    /\ pg_pc = "request"
    /\ \E r \in ListResponses :
          /\ r.nextPageToken # "" => nrequests < MaxListPages
          /\ response' = <<r>>
    /\ inflight' = SelectSeq(inflight, LAMBDA q : q.kind # "list")
    /\ item_i' = 0
    /\ slept' = FALSE
    /\ pg_pc' = "items"
    /\ UNCHANGED <<delivered, page_token, nrequests, nsleeps>>
    /\ UNCHANGED <<tokenVars, importVars, costVars>>

\* http.request of the list request raises
ListFail ==
    /\ pg_pc = "request"
    /\ pg_pc' = "raised"
    /\ inflight' = SelectSeq(inflight, LAMBDA q : q.kind # "list")
    /\ UNCHANGED <<response, item_i, delivered, page_token, nrequests, nsleeps, slept>>
    /\ UNCHANGED <<tokenVars, importVars, costVars>>

\* "yield item", and the consumer asks for the next
YieldItem ==
    /\ pg_pc = "items"
    /\ item_i < Len(response[1].items)
    /\ item_i' = item_i + 1
    /\ delivered' = delivered + 1
    /\ UNCHANGED <<pg_pc, inflight, response, page_token, nrequests, nsleeps, slept>>
    /\ UNCHANGED <<tokenVars, importVars, costVars>>

\* get_paginated gone wrong: the delay is never slept
AfterItems_NoSleep ==
    /\ pg_pc = "items"
    /\ item_i = Len(response[1].items)
    /\ IF response[1].nextPageToken # ""
       THEN /\ page_token' = response[1].nextPageToken
            /\ pg_pc' = "top"
       ELSE /\ pg_pc' = "done"
            /\ UNCHANGED page_token
    /\ UNCHANGED <<inflight, response, item_i, delivered, nrequests, nsleeps, slept>>
    /\ UNCHANGED <<tokenVars, importVars, costVars>>

\* after the for loop: the next page token is kept and the delay, if any, is
\* slept, or the loop is left
AfterItems ==
    /\ pg_pc = "items"
    /\ item_i = Len(response[1].items)
    /\ IF response[1].nextPageToken # ""
       THEN /\ page_token' = response[1].nextPageToken
            /\ pg_pc' = IF response[1].pollingIntervalMillis > 0 THEN "sleep" ELSE "top"
       ELSE /\ pg_pc' = "done"
            /\ UNCHANGED page_token
    /\ UNCHANGED <<inflight, response, item_i, delivered, nrequests, nsleeps, slept>>
    /\ UNCHANGED <<tokenVars, importVars, costVars>>

\* asyncio.sleep(delay) returns
SleepDone ==
    /\ pg_pc = "sleep"
    /\ nsleeps' = nsleeps + 1
    /\ slept' = TRUE
    /\ pg_pc' = "top"
    /\ UNCHANGED <<inflight, response, item_i, delivered, page_token, nrequests>>
    /\ UNCHANGED <<tokenVars, importVars, costVars>>

----------------------------------------------------------------------------
(* Specifications. *)

YoutubeIdle ==
    /\ account = [access_token |-> "t0", refresh_token |-> "r0", token_expires_at |-> 0]
    /\ now = 0
    /\ tk_pc = "idle"
    /\ tk_start = <<>>
    /\ tk_result = ""
    /\ tk_refreshes = 0
    /\ tk_response = <<>>
    /\ pg_pc = "top"
    /\ inflight = <<>>
    /\ response = <<>>
    /\ item_i = 0
    /\ delivered = 0
    /\ page_token = ""
    /\ nrequests = 0
    /\ nsleeps = 0
    /\ slept = FALSE

ImportIdle ==
    /\ remote = <<>>
    /\ cards = <<>>
    /\ StartRun

\* one import run over every catalogue of NameCards
InitNames ==
    /\ remote \in {Chunk(c, PageSize) : c \in SeqsUpTo(NameCards, MaxCards)}
    /\ cards = <<MtgRow>>
    /\ StartRun
    /\ CostIdle
    /\ YoutubeIdle

NextNames ==
    \/ Delete
    \/ DeleteFail
    \/ FetchPage
    \/ FetchFail
    \/ Group
    \/ HandleRow
    \/ InsertFail
    \/ FormatFail
    \/ Commit

SpecNames == InitNames /\ [][NextNames]_vars

\* import runs one after another
InitImport ==
    /\ remote \in {Chunk(c, PageSize) : c \in SeqsUpTo(RunCards, MaxRunCards)}
    /\ cards \in {<<>>, <<MtgRow>>}
    /\ StartRun
    /\ CostIdle
    /\ YoutubeIdle

NextImport ==
    \/ Delete
    \/ DeleteFail
    \/ FetchPage
    \/ FetchFail
    \/ Group
    \/ HandleRow
    \/ InsertFail
    \/ FormatFail
    \/ Commit
    \/ Restart

SpecImport == InitImport /\ [][NextImport]_vars

\* fetch_cards against any catalogue, empty pages in the middle included
InitFetch ==
    /\ remote \in [1..MaxPages -> SeqsUpTo(FetchCards, PageSize)]
    /\ cards = <<>>
    /\ StartRun
    /\ CostIdle
    /\ YoutubeIdle

NextFetch ==
    \/ Delete
    \/ FetchPage
    \/ FetchFail

SpecFetch == InitFetch /\ [][NextFetch]_vars /\ WF_vars(NextFetch)

InitCost ==
    /\ cost_in \in SeqsUpTo(CostTokens, MaxCost)
    /\ cost_out = <<>>
    /\ ImportIdle
    /\ YoutubeIdle

NextCost == CostCall

SpecCost == InitCost /\ [][NextCost]_vars

\* one get_paginated iteration, calling get_token before every page
InitYoutube ==
    /\ account \in [access_token : {"t0"}, refresh_token : {"r0"},
                    token_expires_at : 0..1]
    /\ now = 0
    /\ tk_pc = "idle"
    /\ tk_start = <<>>
    /\ tk_result = ""
    /\ tk_refreshes = 0
    /\ tk_response = <<>>
    /\ pg_pc = "top"
    /\ inflight = <<>>
    /\ response = <<>>
    /\ item_i = 0
    /\ delivered = 0
    /\ page_token = ""
    /\ nrequests = 0
    /\ nsleeps = 0
    /\ slept = FALSE
    /\ ImportIdle
    /\ CostIdle

NextYoutube ==
    \/ Tick
    \/ TokenStart
    \/ TokenRefreshed
    \/ TokenFailed
    \/ ListRequest
    \/ ListResponse
    \/ ListFail
    \/ YieldItem
    \/ AfterItems
    \/ SleepDone

SpecYoutube == InitYoutube /\ [][NextYoutube]_vars

----------------------------------------------------------------------------
(* What the claims speak of, counted on the records fetch_cards yielded. *)

IsPkmn(card) == card.supertype = "Pokémon"

KeyOf(card) == clean_text(<<card.name>>)

\* N: the Pokémon records of the catalogue that share the cleaned name of card
NameCount(card) ==
    Cardinality({i \in 1..Len(yielded) :
        IsPkmn(yielded[i]) /\ KeyOf(yielded[i]) = KeyOf(card)})

\* M: those of them that are of the set of card
SetCount(card) ==
    Cardinality({i \in 1..Len(yielded) :
        /\ IsPkmn(yielded[i])
        /\ KeyOf(yielded[i]) = KeyOf(card)
        /\ yielded[i].set.id = card.set.id})

\* "Name (SET NUM)"
FullName(card) ==
    card.name \o " (" \o setcode(card) \o " " \o card.number \o ")"

Emitted == {emitted[i] : i \in 1..Len(emitted)}

FullRows == {t \in Emitted : IsPkmn(t.card) /\ t.cardname = FullName(t.card)}

BareRows == {i \in 1..Len(emitted) :
                IsPkmn(emitted[i].card) /\ emitted[i].cardname = emitted[i].card.name}

PkmnYielded == {yielded[i] : i \in {j \in 1..Len(yielded) : IsPkmn(yielded[j])}}

\* the rows main inserts for the tuples the run has been handed
RECURSIVE RowsFor(_)
RowsFor(ts) ==
    IF ts = <<>> THEN <<>>
    ELSE LET t == Head(ts)
             h == get_hacks(t.cardname, t.filteredname, t.card)
         IN  (IF h.skip THEN <<>>
              ELSE <<[game |-> CARD_GAME_PTCG, filteredname |-> h.filteredname,
                      name |-> h.cardname, text |-> t.description,
                      hidden |-> t.hidden]>>)
             \o RowsFor(Tail(ts))

----------------------------------------------------------------------------
(* C1: a run that fails after its DELETE leaves the committed table exactly  *)
(* as it was when the run started, and the committed table changes only by   *)
(* the commit of a run that has handled every tuple.                          *)
C1_AllOrNothing ==
    /\ main_pc = "failed" => cards = before
    /\ cards # before =>
        /\ main_pc = "done"
        /\ gi > Len(groups)
        /\ Len(PtcgRows(cards)) = ninserts

\* a run that had rows to replace, inserted some new ones and then failed
C1_Witness ==
    /\ main_pc = "failed"
    /\ PtcgRows(before) # <<>>
    /\ ninserts > 0
    /\ gi <= Len(groups)

(* C2: after a run that completed, the rows tagged ptcg are exactly the rows  *)
(* that run generated, whatever earlier runs had left; a run that fetched no  *)
(* record leaves no ptcg row.                                                 *)
C2_FullReplace ==
    main_pc = "done" =>
        /\ PtcgRows(cards) = RowsFor(emitted)
        /\ Len(emitted) = Len(Flatten([g \in 1..Len(groups) |->
               Flatten([c \in 1..Len(groups[g]) |-> process_card(groups[g][c], groups[g])])]))
        /\ yielded = <<>> => PtcgRows(cards) = <<>>

\* a completed run that replaced the rows of an earlier run by other rows
C2_Witness ==
    /\ main_pc = "done"
    /\ PtcgRows(before) # <<>>
    /\ PtcgRows(cards) # <<>>
    /\ \A i \in 1..Len(PtcgRows(before)) :
          PtcgRows(before)[i] \notin Range(PtcgRows(cards))

\* a completed run over an empty catalogue that removed the rows of an earlier run
C2_WitnessEmpty ==
    /\ main_pc = "done"
    /\ PtcgRows(before) # <<>>
    /\ yielded = <<>>

(* C3 as amended: for a Pokémon record in a group of N with M of its set,     *)
(* the row "Name (SET NUM)" is always emitted, and its hidden flag is true    *)
(* exactly when N = 1 or M = 1, false exactly when N > 1 and M > 1.          *)
C3_FullNameHidden ==
    /\ \A t \in FullRows :
          t.hidden = (NameCount(t.card) = 1 \/ SetCount(t.card) = 1)
    /\ main_pc = "done" =>
          \A c \in PkmnYielded : \E t \in FullRows : t.card = c

\* C3 as stated: that row is visible (hidden false) exactly when N = 1 or M = 1
C3_Original ==
    /\ \A t \in FullRows :
          t.hidden = ~(NameCount(t.card) = 1 \/ SetCount(t.card) = 1)
    /\ main_pc = "done" =>
          \A c \in PkmnYielded : \E t \in FullRows : t.card = c

\* a finished run that emitted the row for a record with N > 1 and M = 1 and
\* for a record with N > 1 and M > 1
C3_Witness ==
    /\ main_pc = "done"
    /\ \E t \in FullRows :
          NameCount(t.card) > 1 /\ SetCount(t.card) = 1 /\ t.hidden
    /\ \E t \in FullRows :
          NameCount(t.card) > 1 /\ SetCount(t.card) > 1 /\ ~t.hidden

(* C4 as amended: the bare name row of a Pokémon record is emitted only when  *)
(* N = 1, and its hidden flag, in the tuple and in the row inserted into the  *)
(* cards table, is false.                                                     *)
C4_BareRow ==
    /\ \A i \in BareRows :
          NameCount(emitted[i].card) = 1 /\ emitted[i].hidden = FALSE
    /\ \A r \in Range(PtcgRows(txn)) :
          (\E c \in PkmnYielded : r.name = c.name) => r.hidden = FALSE

\* C4 as stated: emitted only when N = 1, and inserted with hidden true
C4_Original ==
    /\ \A i \in BareRows : NameCount(emitted[i].card) = 1
    /\ \A r \in Range(PtcgRows(txn)) :
          (\E c \in PkmnYielded : r.name = c.name) => r.hidden = TRUE

\* a committed table that holds the bare row of a Pokémon record
C4_Witness ==
    /\ main_pc = "done"
    /\ \E r \in Range(PtcgRows(cards)) : \E c \in PkmnYielded : r.name = c.name
    /\ \E c \in PkmnYielded : NameCount(c) > 1

\* the bare rows emitted for the group of cleaned name KeyOf(c)
BareRowsOf(c) == {i \in BareRows : KeyOf(emitted[i].card) = KeyOf(c)}

\* the bare rows inserted for the group of cleaned name KeyOf(c)
BareInsertedOf(c) ==
    {i \in 1..Len(PtcgRows(txn)) :
        \E d \in PkmnYielded : KeyOf(d) = KeyOf(c) /\ PtcgRows(txn)[i].name = d.name}

(* C5 as amended: when the run has handled every tuple, the rows emitted for  *)
(* a Pokémon group of size N hold exactly one bare name when N = 1 and none   *)
(* when N > 1; the bare row is inserted unless its name is one of 'Chansey    *)
(* ex', 'Electabuzz ex', 'Magmar ex'; a bare row has hidden false only if     *)
(* N = 1.                                                                     *)
C5_BareCount ==
    main_pc = "done" =>
        \A c \in PkmnYielded :
            /\ Cardinality(BareRowsOf(c)) = (IF NameCount(c) = 1 THEN 1 ELSE 0)
            /\ Cardinality(BareInsertedOf(c)) =
                   (IF NameCount(c) = 1
                       /\ c.name \notin {"Chansey ex", "Electabuzz ex", "Magmar ex"}
                    THEN 1 ELSE 0)
            /\ \A i \in BareRowsOf(c) : emitted[i].hidden = FALSE => NameCount(c) = 1

\* C5 as stated: exactly one bare name for a group of any size
C5_Original ==
    main_pc = "done" =>
        \A c \in PkmnYielded :
            /\ Cardinality(BareRowsOf(c)) = 1
            /\ \A i \in BareRowsOf(c) : emitted[i].hidden = FALSE => NameCount(c) = 1

\* a finished run over a group of several, which has no bare name, and a group
\* of one whose bare name main skips
C5_Witness ==
    /\ main_pc = "done"
    /\ \E c \in PkmnYielded : NameCount(c) > 1 /\ BareRowsOf(c) = {}
    /\ \E c \in PkmnYielded :
          NameCount(c) = 1 /\ Cardinality(BareRowsOf(c)) = 1
          /\ Cardinality(BareInsertedOf(c)) = 0

----------------------------------------------------------------------------
\* the tokens of cost_in other than Colorless, in input order
Typed == SelectSeq(cost_in, LAMBDA i : i # "Colorless")

Colorless == Len(cost_in) - Len(Typed)

Letters == Join([i \in 1..Len(Typed) |-> TYPEABBR[Typed[i]]])

KnownCosts == \A i \in 1..Len(cost_in) : cost_in[i] \in DOMAIN TYPEABBR

(* C6 as amended: for a list of known cost-type tokens cost renders the       *)
(* number of Colorless tokens as an integer only when that number is positive *)
(* or the list is empty, then the letter of each other token in input order:  *)
(* ["Colorless","Colorless","Fire"] gives "2R", ["Fire"] gives "R" and []     *)
(* gives "0".                                                                 *)
C6_CostRendering ==
    (cost_out # <<>> /\ KnownCosts) =>
        /\ cost_out[1].ok
        /\ cost_out[1].val =
               (IF Colorless > 0 \/ cost_in = <<>> THEN ToString(Colorless) ELSE "")
               \o Letters
        /\ cost_in = <<"Colorless", "Colorless", "Fire">> => cost_out[1].val = "2R"
        /\ cost_in = <<"Fire">> => cost_out[1].val = "R"
        /\ cost_in = <<>> => cost_out[1].val = "0"

\* C6 as stated: the count is always rendered, "0" when there is no Colorless
\* token, so that ["Fire"] gives "0R"
C6_Original ==
    (cost_out # <<>> /\ KnownCosts) =>
        /\ cost_out[1].ok
        /\ cost_out[1].val = ToString(Colorless) \o Letters
        /\ cost_in = <<"Colorless", "Colorless", "Fire">> => cost_out[1].val = "2R"
        /\ cost_in = <<"Fire">> => cost_out[1].val = "0R"

\* cost has rendered a non-empty list that holds no Colorless token
C6_Witness ==
    /\ cost_out # <<>>
    /\ KnownCosts
    /\ cost_in # <<>>
    /\ Colorless = 0
    /\ cost_out[1].val = Letters

\* cost has rendered the list of the example
C6_WitnessExample ==
    /\ cost_in = <<"Colorless", "Colorless", "Fire">>
    /\ cost_out = <<[ok |-> TRUE, val |-> "2R"]>>

----------------------------------------------------------------------------
\* group_cards has produced its groups
Grouped == main_pc \in {"iter", "done"}

OtherKeys == {KeyOf(other_cards[i]) : i \in 1..Len(other_cards)}

\* the positions in other_cards of the records of cleaned name k
Positions(k) == {i \in 1..Len(other_cards) : KeyOf(other_cards[i]) = k}

\* the first of the positions of k whose release date no position of k exceeds
FirstLatest(k) ==
    CHOOSE i \in Positions(k) :
        /\ \A j \in Positions(k) :
              other_cards[j].set.releaseDate <= other_cards[i].set.releaseDate
        /\ \A j \in Positions(k) :
              other_cards[j].set.releaseDate = other_cards[i].set.releaseDate => i <= j

\* the groups of the records that are not Pokémon
OtherGroups == SelectSeq(groups, LAMBDA g : ~IsPkmn(g[1]))

(* C7: group_other_cards turns the records that share a cleaned name into one *)
(* group of one record, the one of the latest release date, the first in      *)
(* fetch order among those that tie on it; nothing else of that name is kept. *)
C7_LatestPrinting ==
    Grouped =>
        /\ Len(OtherGroups) = Cardinality(OtherKeys)
        /\ \A j \in 1..Len(OtherGroups) : Len(OtherGroups[j]) = 1
        /\ \A k \in OtherKeys :
              \E j \in 1..Len(OtherGroups) :
                  OtherGroups[j] = <<other_cards[FirstLatest(k)]>>

\* three printings of one name, the two latest tying, the later-fetched of the
\* two discarded
C7_Witness ==
    /\ Grouped
    /\ other_cards = <<PotionA, PotionC, PotionB>>
    /\ OtherGroups = <<(<<PotionC>>)>>

----------------------------------------------------------------------------
\* fetch_cards is exhausted
FetchDone == main_pc = "group"

\* fetch_cards has stopped, exhausted or by an exception of the request
FetchEnded == main_pc \in {"group", "failed"}

\* the pages answered so far
Answered == IF main_pc = "failed" THEN Len(requested) - 1 ELSE Len(requested)

FetchInv ==
    /\ requested = [i \in 1..Len(requested) |-> i]
    /\ \A i \in 1..(Len(requested) - 1) : PageData(i) # <<>>
    /\ FetchDone => PageData(Len(requested)) = <<>>
    /\ main_pc = "fetch" => page = Len(requested) + 1
    /\ yielded = Flatten([i \in 1..Answered |-> PageData(i)])

(* C8: fetch_cards requests pages 1, 2, 3, ... in increasing order, yields    *)
(* the records of every non-empty page in page order, stops at the first      *)
(* empty page and requests nothing after it; against a catalogue that has an  *)
(* empty page it ends.                                                        *)
C8_FetchPaging == []FetchInv /\ <>FetchEnded

\* fetch_cards exhausted after a non-empty page, with a non-empty page beyond
\* the empty one that was never requested
C8_Witness ==
    /\ FetchDone
    /\ Len(requested) >= 2
    /\ yielded # <<>>
    /\ \E p \in (Len(requested) + 1)..Len(remote) : remote[p] # <<>>

----------------------------------------------------------------------------
\* the last response ended the listing
LastPage == response # <<>> /\ response[1].nextPageToken = ""

\* every item of the current response has been yielded
AllYielded == response # <<>> /\ item_i = Len(response[1].items)

OneInFlight ==
    /\ Len(inflight) <= 1
    /\ pg_pc = "request" <=> (\E i \in 1..Len(inflight) : inflight[i].kind = "list")
    /\ pg_pc = "done" => LastPage /\ AllYielded /\ inflight = <<>>

\* a step that sends a list request: nothing is in flight, and the previous
\* response, if there is one, has been received and handed over in full, names
\* a next page, and the delay it asked for has been slept
RequestInTurn ==
    nrequests' # nrequests =>
        /\ nrequests' = nrequests + 1
        /\ inflight = <<>>
        /\ response # <<>> =>
              /\ AllYielded
              /\ ~LastPage
              /\ inflight'[1].pageToken = response[1].nextPageToken
              /\ response[1].pollingIntervalMillis > 0 => slept

\* after the response without a nextPageToken: no sleep, no request of any kind
NothingAfterLast ==
    LastPage =>
        /\ nrequests' = nrequests
        /\ nsleeps' = nsleeps
        /\ inflight' = <<>>
        /\ response' = response

\* a sleep happens only for a positive pollingIntervalMillis, once per response
SleepOnlyOnDelay ==
    nsleeps' # nsleeps =>
        /\ AllYielded
        /\ response[1].pollingIntervalMillis > 0
        /\ ~slept

(* C9: in one get_paginated iteration at most one HTTP request is in flight;  *)
(* a list request is sent only after the previous response has arrived, all   *)
(* its items have been yielded and, for a positive pollingIntervalMillis, the *)
(* sleep has finished; the iteration ends at the first response without a     *)
(* nextPageToken, with no sleep and no request after it.                      *)
C9_Sequential ==
    /\ []OneInFlight
    /\ [][RequestInTurn /\ NothingAfterLast /\ SleepOnlyOnDelay]_vars

\* an iteration that ended after two pages, with an item yielded and a sleep
\* between them
C9_Witness ==
    /\ pg_pc = "done"
    /\ nrequests = 2
    /\ nsleeps = 1
    /\ delivered >= 1

----------------------------------------------------------------------------
\* the current get_token call found the stored expiry in the future
FoundValid == tk_start[1].account.token_expires_at > tk_start[1].now

(* C10: a get_token call that finds the stored expiry in the future returns   *)
(* the stored access token, sends no refresh request and writes nothing; one  *)
(* that finds it expired sends exactly one refresh request, stores the new    *)
(* access token and expiry, replaces the stored refresh token only if the     *)
(* response carries one, and returns the access token now stored; if the      *)
(* refresh request fails the row is unchanged and the caller gets the failure.*)
C10_GetToken ==
    /\ (tk_pc = "returned" /\ FoundValid) =>
          /\ tk_result = tk_start[1].account.access_token
          /\ tk_refreshes = 0
          /\ tk_response = <<>>
          /\ account = tk_start[1].account
    /\ (tk_pc = "returned" /\ ~FoundValid) =>
          /\ tk_refreshes = 1
          /\ tk_response # <<>>
          /\ account.access_token = tk_response[1].response.access_token
          /\ account.token_expires_at =
                 tk_response[1].at + tk_response[1].response.expires_in
          /\ account.refresh_token =
                 (IF tk_response[1].response.refresh_token = ""
                  THEN tk_start[1].account.refresh_token
                  ELSE tk_response[1].response.refresh_token)
          /\ tk_result = account.access_token
    /\ tk_pc = "refresh" =>
          /\ account = tk_start[1].account
          /\ \E i \in 1..Len(inflight) :
                inflight[i] = [kind |-> "token",
                               refresh_token |-> tk_start[1].account.refresh_token]
    /\ tk_pc = "raised" =>
          /\ ~FoundValid
          /\ tk_refreshes = 1
          /\ account = tk_start[1].account
          /\ pg_pc = "raised"

\* a call, not the first, that refreshed and got no refresh token back: the
\* stored one was kept
C10_Witness ==
    /\ tk_pc = "returned"
    /\ nrequests >= 1
    /\ tk_refreshes = 1
    /\ tk_response[1].response.refresh_token = ""
    /\ account.refresh_token = "r1"

\* a call that found the token valid, after an earlier call had refreshed it
C10_WitnessValid ==
    /\ tk_pc = "returned"
    /\ FoundValid
    /\ account.access_token # "t0"

\* a call whose refresh request failed
C10_WitnessFailed == tk_pc = "raised" /\ nrequests >= 1

====
